---- MODULE Spec2Model ----
(***************************************************************************)
(* Model of the Django management command chat_app_terminal                *)
(* (src/Chat_app/management/commands/chat_app_terminal.py).                *)
(*                                                                         *)
(* Command.handle builds a ChatBot, trains it on the English corpus and    *)
(* runs a terminal read-eval-print loop.  The external engine (ChatterBot) *)
(* is an opaque collaborator: each call into it either returns or raises,  *)
(* and may touch the persistent statement store.  An operator pressing     *)
(* Ctrl+C makes KeyboardInterrupt surface in whichever call is blocking.   *)
(*                                                                         *)
(* Text is a sequence of one-character strings, so that str.strip and      *)
(* str.lower are computed character by character.                          *)
(***************************************************************************)
EXTENDS Naturals, Integers, Sequences, FiniteSets, TLC

\* Longest standard-input stream that Init enumerates.
MaxLines == 2

----------------------------------------------------------------------------
(* Characters and the string methods used by _chat_loop                    *)

Whitespace == {" ", "\t"}

UpperCase == <<"E", "X", "I", "T", "Q", "U", "H">>
LowerCase == <<"e", "x", "i", "t", "q", "u", "h">>

\* str.lower on one character
LowerChar(c) ==
    IF \E i \in 1..Len(UpperCase) : UpperCase[i] = c
    THEN LowerCase[CHOOSE i \in 1..Len(UpperCase) : UpperCase[i] = c]
    ELSE c

\* str.lower
Lower(s) == [i \in 1..Len(s) |-> LowerChar(s[i])]

RECURSIVE LStrip(_)
LStrip(s) ==
    IF s # <<>> /\ Head(s) \in Whitespace THEN LStrip(Tail(s)) ELSE s

RECURSIVE RStrip(_)
RStrip(s) ==
    IF s # <<>> /\ s[Len(s)] \in Whitespace
    THEN RStrip(SubSeq(s, 1, Len(s) - 1))
    ELSE s

\* input(...) without the .strip() call
StripNothing(s) == s

\* str.strip: drop leading and trailing whitespace
Strip(s) == RStrip(LStrip(s))

\* the literal set {'exit', 'quit'} of line 91
Sentinels == { <<"e", "x", "i", "t">>, <<"q", "u", "i", "t">> }

\* user_text in {'exit', 'quit'}, without .lower()
IsSentinelCaseSensitive(user_text) == user_text \in Sentinels

\* user_text.lower().startswith(('exit', 'quit')): a test on a part of the line
IsSentinelPrefix(user_text) ==
    \E n \in 0..Len(user_text) : Lower(SubSeq(user_text, 1, n)) \in Sentinels

\* user_text.lower() in {'exit', 'quit'}
IsSentinel(user_text) == Lower(user_text) \in Sentinels

\* not user_text
IsBlank(user_text) == user_text = <<>>

----------------------------------------------------------------------------
(* Python exceptions                                                       *)

\* The classes an exception is an instance of (its class and its bases).
Mro(cls) ==
    CASE cls = "ValueError"        -> {"ValueError", "Exception", "BaseException"}
      [] cls = "EOFError"          -> {"EOFError", "Exception", "BaseException"}
      [] cls = "KeyboardInterrupt" -> {"KeyboardInterrupt", "BaseException"}

\* `except <handler>` catches exc when exc is an instance of a handler class
Catches(handler, exc) == handler \cap Mro(exc.cls) # {}

NoException == [cls |-> "None", msg |-> ""]

\* What a call into the external engine may raise: an ordinary error, or
\* KeyboardInterrupt when the operator presses Ctrl+C while the call runs.
EngineErrors ==
    { [cls |-> "ValueError", msg |-> "no such table"],
      [cls |-> "KeyboardInterrupt", msg |-> ""] }

\* What input() raises: EOFError at end of stream, KeyboardInterrupt on Ctrl+C.
EndOfInput == [cls |-> "EOFError", msg |-> ""]
Interrupt  == [cls |-> "KeyboardInterrupt", msg |-> ""]

----------------------------------------------------------------------------
(* Input lines, engine data and terminal output                            *)

InputLines ==
    { <<"e", "x", "i", "t">>,
      <<"q", "u", "i", "t">>,
      <<"E", "X", "I", "T">>,
      <<"Q", "u", "i", "t">>,
      <<" ", "E", "x", "i", "t", "\t">>,
      <<"e", "x", "i", "t", " ", "n", "o", "w">>,
      <<"q", "u", "i", "t", "t", "i", "n", "g">>,
      <<"h", "e", "l", "l", "o">>,
      <<"\t", "H", "i", " ">>,
      <<>>,
      <<" ", "\t">> }

Hello == <<"h", "e", "l", "l", "o">>
Quit  == <<"q", "u", "i", "t">>

\* the scenario of the specification: ["hello", "", "quit"]
Scenario == << Hello, <<>>, Quit >>

RECURSIVE SeqsUpTo(_, _)
SeqsUpTo(S, n) ==
    IF n = 0 THEN { <<>> }
    ELSE LET shorter == SeqsUpTo(S, n - 1)
         IN  shorter \cup { Append(q, x) : q \in shorter, x \in S }

\* statements of 'chatterbot.corpus.english'
Corpus == { <<"h", "i">> }

\* default_response of the BestMatch logic adapter
DefaultResponse == "I'm not sure I understand. Can you rephrase?"

Responses == { "Hi", DefaultResponse }

\* self.stdout.write(self.style.<STYLE>(text))
Styled(style, text) == [via |-> style, text |-> text]
\* print(...)
Printed(text) == [via |-> "print", text |-> text]
\* the prompt written by input('You: ')
Prompt == [via |-> "input", text |-> <<"You: ">>]

TrainingNotice ==
    Styled("NOTICE", <<"Preparing and training the bot (first run may take a while)...">>)
TrainingWarning(exc) == Styled("WARNING", <<"Training warning: ", exc.msg>>)
ContinuingWarning ==
    Styled("WARNING", <<"Continuing; the bot may have limited knowledge this run.">>)
ReadyBanner ==
    Styled("SUCCESS", <<"Bot is ready. Type your message, or type \"exit\" to quit.">>)
Newline == Printed(<<>>)
Goodbye == Printed(<<"Bot: Goodbye!">>)
BotResponse(response) == Printed(<<"Bot: ", response>>)
BotProblem(exc) == Printed(<<"Bot: Sorry, I ran into a problem: ", exc.msg>>)

NoChatbot == [name |-> "None", read_only |-> FALSE, id |-> 0]

----------------------------------------------------------------------------
VARIABLES
    options,      \* parsed command line: [read_only |-> BOOLEAN]
    stdin,        \* the lines standard input will deliver, in order
    pos,          \* number of lines input() has returned so far
    state,        \* where handle is
    chatbot,      \* the agent handle, NoChatbot before construction
    user_text,    \* the local variable of _chat_loop
    store,        \* statements in chatterbot.sqlite3
    store0,       \* the store when handle started
    output,       \* what was written to the terminal, in order
    dispatched,   \* arguments of the get_response calls made, in order
    trainCalls,   \* number of trainer.train calls made
    signal,       \* the exception input() raised last, if any
    raised,       \* the exception that left handle, if any
    created,      \* number of ChatBot instances constructed
    engineCalls   \* the engine calls made, each with the handle it was given

vars == << options, stdin, pos, state, chatbot, user_text, store, store0,
           output, dispatched, trainCalls, signal, raised, created,
           engineCalls >>

States == { "START", "BUILT", "WAITING_FOR_INPUT", "DISPATCHING",
            "TERMINATED", "RAISED" }

TypeOK ==
    /\ options \in [read_only : BOOLEAN]
    /\ stdin \in Seq(InputLines)
    /\ pos \in 0..Len(stdin)
    /\ state \in States
    /\ chatbot \in [name : {"None", "TerminalBot"}, read_only : BOOLEAN,
                     id : 0..1]
    /\ store \subseteq Corpus \cup { Strip(l) : l \in InputLines }
    /\ store0 \subseteq Corpus
    /\ trainCalls \in 0..1
    /\ signal \in {NoException, EndOfInput, Interrupt}
    /\ raised \in {NoException} \cup EngineErrors
    /\ created \in 0..1
    /\ engineCalls \subseteq [op : {"train", "get_response"}, chatbot : {chatbot}]

Init ==
    /\ options \in [read_only : BOOLEAN]
    /\ stdin \in SeqsUpTo(InputLines, MaxLines) \cup { Scenario }
    /\ pos = 0
    /\ state = "START"
    /\ chatbot = NoChatbot
    /\ user_text = <<>>
    /\ store0 \in { {}, Corpus }
    /\ store = store0
    /\ output = <<>>
    /\ dispatched = <<>>
    /\ trainCalls = 0
    /\ signal = NoException
    /\ raised = NoException
    /\ created = 0
    /\ engineCalls = {}

----------------------------------------------------------------------------
(* handle, line 112: chatbot = self._build_chatbot(read_only=...)          *)
(* No try block surrounds the ChatBot(...) call.                           *)

BuildReturns ==
    /\ created' = created + 1
    /\ chatbot' = [name |-> "TerminalBot", read_only |-> options.read_only,
                   id |-> created']
    /\ state' = "BUILT"
    /\ UNCHANGED raised

\* a construction failure swallowed instead of propagated
BuildRaisesSwallowed(exc) ==
    /\ state' = "BUILT"
    /\ UNCHANGED << chatbot, raised, created >>

BuildRaises(exc) ==
    /\ state' = "RAISED"
    /\ raised' = exc
    /\ UNCHANGED << chatbot, created >>

build_chatbot ==
    /\ state = "START"
    /\ \/ BuildReturns
       \/ \E exc \in EngineErrors : BuildRaises(exc)
    /\ UNCHANGED << options, stdin, pos, user_text, store, store0, output,
                    dispatched, trainCalls, signal, engineCalls >>

----------------------------------------------------------------------------
(* handle, line 113: self._train_if_needed(chatbot), then the banner of    *)
(* _chat_loop (lines 80-82) once training has returned.                    *)

\* the handler of line 71
TrainHandler == {"Exception"}

\* trainer.train returned: the corpus is in the store ("ChatterBot caches
\* statements in the SQLite DB", lines 5-6 and 62-63).  The call is made
\* whatever options.read_only is: line 113 passes no flag and tests none.
TrainReturns ==
    /\ store' = store \cup Corpus
    /\ output' = output \o << TrainingNotice, ReadyBanner >>
    /\ state' = "WAITING_FOR_INPUT"
    /\ UNCHANGED raised

\* trainer.train raised exc after writing the statements in `written`
TrainRaises(exc, written) ==
    /\ store' = store \cup written
    /\ IF Catches(TrainHandler, exc)
       THEN /\ output' = output \o << TrainingNotice, TrainingWarning(exc),
                                      ContinuingWarning, ReadyBanner >>
            /\ state' = "WAITING_FOR_INPUT"
            /\ UNCHANGED raised
       ELSE /\ output' = Append(output, TrainingNotice)
            /\ state' = "RAISED"
            /\ raised' = exc

\* training skipped when the store already holds statements
train_only_if_store_empty ==
    /\ state = "BUILT"
    /\ IF store = {}
       THEN /\ trainCalls' = trainCalls + 1
            /\ \/ TrainReturns
               \/ \E exc \in EngineErrors, written \in SUBSET Corpus :
                     TrainRaises(exc, written)
       ELSE /\ output' = Append(output, ReadyBanner)
            /\ state' = "WAITING_FOR_INPUT"
            /\ UNCHANGED << trainCalls, store, raised >>
    /\ engineCalls' = IF store = {}
                      THEN engineCalls \cup { [op |-> "train", chatbot |-> chatbot] }
                      ELSE engineCalls
    /\ UNCHANGED << options, stdin, pos, chatbot, user_text, store0,
                    dispatched, signal, created >>

train_if_needed ==
    /\ state = "BUILT"
    /\ trainCalls' = trainCalls + 1
    /\ \/ TrainReturns
       \/ \E exc \in EngineErrors, written \in SUBSET Corpus :
             TrainRaises(exc, written)
    /\ engineCalls' = engineCalls \cup { [op |-> "train", chatbot |-> chatbot] }
    /\ UNCHANGED << options, stdin, pos, chatbot, user_text, store0,
                    dispatched, signal, created >>

----------------------------------------------------------------------------
(* _chat_loop, lines 84-97: one input() call and the tests on its result   *)

\* a handler that forgets Ctrl+C
InputHandlerEOFOnly == {"EOFError"}

\* a handler that forgets end of input
InputHandlerInterruptOnly == {"KeyboardInterrupt"}

\* the handler of line 86
InputHandler == {"EOFError", "KeyboardInterrupt"}

\* input() raised exc (lines 86-89)
InputRaises(exc) ==
    /\ signal' = exc
    /\ IF Catches(InputHandler, exc)
       THEN /\ output' = output \o << Prompt, Newline >>
            /\ state' = "TERMINATED"
            /\ UNCHANGED raised
       ELSE /\ output' = Append(output, Prompt)
            /\ state' = "RAISED"
            /\ raised' = exc
    /\ UNCHANGED << pos, user_text >>

\* the sentinel branch saying goodbye without leaving the loop
InputReturnsWithoutBreak(line) ==
    /\ pos' = pos + 1
    /\ user_text' = Strip(line)
    /\ IF IsSentinel(user_text')
       THEN /\ output' = output \o << Prompt, Goodbye >>
            /\ state' = "WAITING_FOR_INPUT"
       ELSE IF IsBlank(user_text')
       THEN /\ output' = Append(output, Prompt)
            /\ state' = "WAITING_FOR_INPUT"
       ELSE /\ output' = Append(output, Prompt)
            /\ state' = "DISPATCHING"
    /\ UNCHANGED << signal, raised >>

\* input() returned the next line (lines 85, 91-97)
InputReturns(line) ==
    /\ pos' = pos + 1
    /\ user_text' = Strip(line)
    /\ IF IsSentinel(user_text')
       THEN /\ output' = output \o << Prompt, Goodbye >>
            /\ state' = "TERMINATED"
       ELSE IF IsBlank(user_text')
       THEN /\ output' = Append(output, Prompt)
            /\ state' = "WAITING_FOR_INPUT"
       ELSE /\ output' = Append(output, Prompt)
            /\ state' = "DISPATCHING"
    /\ UNCHANGED << signal, raised >>

chat_loop_input ==
    /\ state = "WAITING_FOR_INPUT"
    /\ \/ /\ pos < Len(stdin)
          /\ InputReturns(stdin[pos + 1])
       \/ /\ pos = Len(stdin)
          /\ InputRaises(EndOfInput)
       \/ InputRaises(Interrupt)
    /\ UNCHANGED << options, stdin, chatbot, store, store0, dispatched,
                    trainCalls, created, engineCalls >>

----------------------------------------------------------------------------
(* _chat_loop, lines 99-104: chatbot.get_response(user_text) and the print *)

\* the handler of line 102
DispatchHandler == {"Exception"}

\* a response that is obtained but never printed
DispatchReturnsSilent(response) ==
    /\ store' = IF chatbot.read_only THEN store ELSE store \cup {user_text}
    /\ UNCHANGED output
    /\ state' = "WAITING_FOR_INPUT"
    /\ UNCHANGED raised

\* get_response returned; unless the agent was built with read_only=True
\* (line 55) the engine has stored the input as a learned statement (line 5)
DispatchReturns(response) ==
    /\ store' = IF chatbot.read_only THEN store ELSE store \cup {user_text}
    /\ output' = Append(output, BotResponse(response))
    /\ state' = "WAITING_FOR_INPUT"
    /\ UNCHANGED raised

\* a failed dispatch that is tried again with the same text
DispatchRaisesRetry(exc) ==
    /\ UNCHANGED store
    /\ IF Catches(DispatchHandler, exc)
       THEN /\ output' = Append(output, BotProblem(exc))
            /\ state' = "DISPATCHING"
            /\ UNCHANGED raised
       ELSE /\ UNCHANGED output
            /\ state' = "RAISED"
            /\ raised' = exc

\* get_response raised exc
DispatchRaises(exc) ==
    /\ UNCHANGED store
    /\ IF Catches(DispatchHandler, exc)
       THEN /\ output' = Append(output, BotProblem(exc))
            /\ state' = "WAITING_FOR_INPUT"
            /\ UNCHANGED raised
       ELSE /\ UNCHANGED output
            /\ state' = "RAISED"
            /\ raised' = exc

\* a loop that builds its own agent, with the default read_only, each turn
chat_loop_dispatch_rebuilds ==
    /\ state = "DISPATCHING"
    /\ dispatched' = Append(dispatched, user_text)
    /\ created' = created + 1
    /\ engineCalls' = engineCalls \cup
          { [op |-> "get_response",
             chatbot |-> [name |-> "TerminalBot", read_only |-> FALSE,
                          id |-> created']] }
    /\ \/ \E response \in Responses : DispatchReturns(response)
       \/ \E exc \in EngineErrors : DispatchRaises(exc)
    /\ UNCHANGED << options, stdin, pos, chatbot, user_text, store0,
                    trainCalls, signal >>

chat_loop_dispatch ==
    /\ state = "DISPATCHING"
    /\ dispatched' = Append(dispatched, user_text)
    /\ engineCalls' = engineCalls \cup
          { [op |-> "get_response", chatbot |-> chatbot] }
    /\ \/ \E response \in Responses : DispatchReturns(response)
       \/ \E exc \in EngineErrors : DispatchRaises(exc)
    /\ UNCHANGED << options, stdin, pos, chatbot, user_text, store0,
                    trainCalls, signal, created >>

----------------------------------------------------------------------------
Next ==
    \/ build_chatbot
    \/ train_if_needed
    \/ chat_loop_input
    \/ chat_loop_dispatch

Spec == Init /\ [][Next]_vars

\* Runs on a finite input stream: the operator types the lines of stdin and
\* then closes the stream, and never presses Ctrl+C.  The command is one
\* thread of blocking calls, each of which returns or raises, so a step
\* that can be taken is eventually taken.
NoInterrupt == signal' # Interrupt /\ raised' # Interrupt

FiniteInputNext ==
    \/ build_chatbot /\ NoInterrupt
    \/ train_if_needed /\ NoInterrupt
    \/ chat_loop_input /\ NoInterrupt
    \/ chat_loop_dispatch /\ NoInterrupt

FiniteInput == Init /\ [][FiniteInputNext]_vars /\ WF_vars(FiniteInputNext)

----------------------------------------------------------------------------
(* Vocabulary of the properties                                            *)

\* the lines of InputLines that are a sentinel once stripped and lower-cased
SentinelLines ==
    { <<"e", "x", "i", "t">>,
      <<"q", "u", "i", "t">>,
      <<"E", "X", "I", "T">>,
      <<"Q", "u", "i", "t">>,
      <<" ", "E", "x", "i", "t", "\t">> }

\* an empty or whitespace-only line
AllWhitespace(line) == \A i \in 1..Len(line) : line[i] \in Whitespace

\* the step in which input() returns the next line of stdin
ReadsLine == state = "WAITING_FOR_INPUT" /\ pos' = pos + 1

Occurs(entry) == \E i \in 1..Len(output) : output[i] = entry

ValueErr == [cls |-> "ValueError", msg |-> "no such table"]

\* _chat_loop was entered (its banner is the first thing it writes)
LoopEntered == Occurs(ReadyBanner)

\* the get_response calls made so far, the one in progress included
Calls ==
    IF state = "DISPATCHING" THEN Append(dispatched, user_text) ELSE dispatched

\* the stripped texts of the lines that are neither blank nor a sentinel
RECURSIVE Dispatchable(_)
Dispatchable(lines) ==
    IF lines = <<>> THEN <<>>
    ELSE LET line == Head(lines)
         IN  IF AllWhitespace(line) \/ line \in SentinelLines
             THEN Dispatchable(Tail(lines))
             ELSE << Strip(line) >> \o Dispatchable(Tail(lines))

----------------------------------------------------------------------------
\* C1: whenever the line read is a sentinel once stripped and lower-cased
\* ("exit", "quit", "EXIT", "Quit", " Exit\t"), that step takes the loop from
\* WAITING_FOR_INPUT to TERMINATED with the goodbye line, makes no
\* get_response call and lets no exception out, whatever came before.
C1_SentinelTerminates ==
    [][ (ReadsLine /\ stdin[pos + 1] \in SentinelLines)
          => /\ state' = "TERMINATED"
             /\ dispatched' = dispatched
             /\ output' = output \o << Prompt, Goodbye >>
             /\ raised' = NoException ]_vars

\* "EXIT" ended the loop right after a dispatch that had failed
C1_Witness ==
    /\ state = "TERMINATED"
    /\ pos = 2
    /\ stdin[2] = <<"E", "X", "I", "T">>
    /\ dispatched = << Hello >>
    /\ Occurs(BotProblem(ValueErr))

\* C2: whenever the line read is empty or whitespace-only, the loop stays in
\* WAITING_FOR_INPUT having written only the prompt, and no get_response
\* call is made for it.
C2_BlankLineIgnored ==
    [][ (ReadsLine /\ AllWhitespace(stdin[pos + 1]))
          => /\ state' = "WAITING_FOR_INPUT"
             /\ dispatched' = dispatched
             /\ output' = Append(output, Prompt)
             /\ raised' = NoException ]_vars

\* a whitespace-only line was skipped directly after a failed dispatch
C2_Witness ==
    /\ state = "WAITING_FOR_INPUT"
    /\ pos = 2
    /\ stdin[2] = <<" ", "\t">>
    /\ dispatched = << Hello >>
    /\ Len(output) >= 2
    /\ output[Len(output) - 1] = BotProblem(ValueErr)
    /\ output[Len(output)] = Prompt

\* C3: the only transition out of DISPATCHING is back to WAITING_FOR_INPUT,
\* whatever get_response raises, and nothing propagates out of the loop.
C3_DispatchAlwaysReturnsToWaiting ==
    [][ state = "DISPATCHING"
          => (state' = "WAITING_FOR_INPUT" /\ raised' = NoException) ]_vars

\* C4: once the training call has been made, the loop has been started,
\* whether training returned or raised.
C4_TrainingNeverPreventsLoop == (trainCalls = 1) => LoopEntered

\* C5: when input() raises EOFError or KeyboardInterrupt the loop goes to
\* TERMINATED, prints exactly one empty line after the prompt (no goodbye, no
\* diagnostic), makes no get_response call and lets no exception out.
C5_SignalWhileWaiting ==
    [][ (state = "WAITING_FOR_INPUT" /\ signal' # signal)
          => /\ signal' \in {EndOfInput, Interrupt}
             /\ state' = "TERMINATED"
             /\ output' = output \o << Prompt, Newline >>
             /\ dispatched' = dispatched
             /\ raised' = NoException ]_vars

\* Ctrl+C at the prompt ended the loop after one dispatch
C5_Witness ==
    /\ state = "TERMINATED"
    /\ signal = Interrupt
    /\ dispatched = << Hello >>
    /\ output[Len(output)] = Newline
    /\ ~Occurs(Goodbye)

\* C6: an interrupt delivered after the loop was entered, during a dispatch as
\* well as at the prompt, never leaves the loop as an exception.
C6_InterruptNeverEscapesLoop == ~(LoopEntered /\ raised = Interrupt)

\* C7: with --read-only the store holds at every point of the run exactly the
\* statements it held when handle started.
C7_ReadOnlyStoreUnchanged == options.read_only => store = store0

\* C8: handle runs construct -> train -> loop: training is attempted at most
\* once and only with a constructed agent, the loop is entered only after the
\* one training attempt, and before that attempt nothing is prompted or
\* dispatched.
C8_LinearControlFlow ==
    /\ trainCalls <= 1
    /\ (trainCalls = 1) => chatbot # NoChatbot
    /\ (state \in {"WAITING_FOR_INPUT", "DISPATCHING", "TERMINATED"} \/ LoopEntered)
          => trainCalls = 1
    /\ (trainCalls = 0) => (~Occurs(Prompt) /\ Calls = <<>> /\ pos = 0)

\* a dispatch is in progress in a run whose training failed and was caught
C8_Witness ==
    /\ state = "DISPATCHING"
    /\ Occurs(TrainingWarning(ValueErr))
    /\ trainCalls = 1

\* C9: when construction has failed (handle has left START without an agent)
\* the exception has left handle, training was never attempted, the loop was
\* never entered, and nothing was prompted, dispatched or written.
C9_ConstructionFailureIsFatal ==
    (state # "START" /\ chatbot = NoChatbot)
        => /\ state = "RAISED"
           /\ raised # NoException
           /\ trainCalls = 0
           /\ ~LoopEntered
           /\ output = <<>>
           /\ Calls = <<>>
           /\ pos = 0

\* ChatBot(...) raised an ordinary error
C9_Witness ==
    /\ state = "RAISED"
    /\ chatbot = NoChatbot
    /\ raised = ValueErr

\* C10: the get_response calls are, in order and once each, the stripped lines
\* read so far that are neither blank nor a sentinel; no line is read after a
\* sentinel; the loop ends only on a sentinel, on end of input (when every
\* line was read) or on an interrupt.  For ["hello", "", "quit"] without an
\* interrupt: one call, for "hello", then termination with nothing escaping.
C10_DispatchesFollowInput ==
    LoopEntered =>
        /\ Calls = Dispatchable(SubSeq(stdin, 1, pos))
        /\ \A i \in 1..(pos - 1) : stdin[i] \notin SentinelLines
        /\ (state = "TERMINATED" /\ signal = NoException)
              => (pos > 0 /\ stdin[pos] \in SentinelLines)
        /\ (signal = EndOfInput) => pos = Len(stdin)
        /\ (state = "RAISED") => raised = Interrupt
        /\ (stdin = Scenario /\ state = "TERMINATED" /\ signal = NoException)
              => (pos = 3 /\ dispatched = << Hello >> /\ raised = NoException)

\* the scenario ran to its end, "hello" having failed and not been retried
C10_Witness ==
    /\ stdin = Scenario
    /\ state = "TERMINATED"
    /\ signal = NoException
    /\ dispatched = << Hello >>
    /\ Occurs(BotProblem(ValueErr))
    /\ raised = NoException

\* C11: the loop is entered in WAITING_FOR_INPUT, and once it has terminated
\* (it is in TERMINATED, or has printed the goodbye line or the closing empty
\* line) it stays in TERMINATED: no further line is read, no get_response
\* call is made and nothing more is written.
C11_TerminatedIsAbsorbing ==
    [][ /\ (~LoopEntered /\ LoopEntered') => state' = "WAITING_FOR_INPUT"
        /\ (state = "TERMINATED" \/ Occurs(Goodbye) \/ Occurs(Newline))
              => /\ state = "TERMINATED"
                 /\ state' = "TERMINATED"
                 /\ pos' = pos
                 /\ dispatched' = dispatched
                 /\ output' = output ]_vars

\* the loop ended on "quit" with a line of input still unread
C11_Witness ==
    /\ state = "TERMINATED"
    /\ pos = 1
    /\ stdin = << Quit, Hello >>
    /\ output[Len(output)] = Goodbye
    /\ dispatched = <<>>

\* C12: at most one agent handle is created in a run and exactly one once
\* construction has succeeded; the training call and every get_response call
\* were given that handle; its read-only flag is the --read-only option and
\* the handle, once assigned, never changes.
C12_OneHandle ==
    /\ [] /\ created <= 1
          /\ (chatbot # NoChatbot)
                => /\ created = 1
                   /\ chatbot.id = 1
                   /\ chatbot.read_only = options.read_only
          /\ (state \notin {"START", "RAISED"}) => chatbot # NoChatbot
          /\ \A call \in engineCalls :
                call.chatbot = chatbot /\ call.chatbot # NoChatbot
          /\ (trainCalls = 1)
                => [op |-> "train", chatbot |-> chatbot] \in engineCalls
          /\ (dispatched # <<>>)
                => [op |-> "get_response", chatbot |-> chatbot] \in engineCalls
    /\ [][ (chatbot # NoChatbot) => chatbot' = chatbot ]_vars

\* a --read-only run ended after training and a dispatch on the one handle
C12_Witness ==
    /\ state = "TERMINATED"
    /\ options.read_only
    /\ created = 1
    /\ chatbot.read_only
    /\ engineCalls = { [op |-> "train", chatbot |-> chatbot],
                       [op |-> "get_response", chatbot |-> chatbot] }
    /\ Len(dispatched) = 2

\* the 'Bot: ' lines that answer a dispatch: a response or a diagnostic
AnswerLines ==
    { BotResponse(r) : r \in Responses } \cup { BotProblem(e) : e \in EngineErrors }

NumAnswers == Cardinality({ i \in 1..Len(output) : output[i] \in AnswerLines })

\* C13: whenever the loop is back at the prompt or has terminated, the
\* response and diagnostic lines printed are as many as the dispatches made,
\* each directly after the prompt of its own line (so never two for one
\* dispatch); the step from DISPATCHING back to WAITING_FOR_INPUT writes
\* exactly one such line; reading a blank line writes the prompt only.
C13_OneAnswerPerDispatch ==
    /\ [] /\ (state \in {"WAITING_FOR_INPUT", "TERMINATED"})
                => NumAnswers = Len(dispatched)
          /\ \A i \in 1..Len(output) :
                (output[i] \in AnswerLines) => (i > 1 /\ output[i - 1] = Prompt)
    /\ [][ /\ (state = "DISPATCHING" /\ state' = "WAITING_FOR_INPUT")
                => \E line \in AnswerLines : output' = Append(output, line)
           /\ (ReadsLine /\ AllWhitespace(stdin[pos + 1]))
                => (output' = Append(output, Prompt) /\ NumAnswers' = NumAnswers)
         ]_vars

\* a response, then a diagnostic, each after its own prompt
C13_Witness ==
    /\ state = "WAITING_FOR_INPUT"
    /\ Len(dispatched) = 2
    /\ Len(output) >= 4
    /\ output[Len(output) - 3] = Prompt
    /\ output[Len(output) - 2] = BotResponse("Hi")
    /\ output[Len(output) - 1] = Prompt
    /\ output[Len(output)] = BotProblem(ValueErr)

\* C14: on a finite input stream (lines, then end of input, no interrupt),
\* whichever dispatches succeed or fail, once the loop has been entered it
\* eventually reaches TERMINATED.
C14_LoopTerminates == LoopEntered ~> (state = "TERMINATED")

\* a blank line and a failed dispatch were passed, then end of input ended
\* the loop
C14_Witness ==
    /\ state = "TERMINATED"
    /\ signal = EndOfInput
    /\ stdin = << <<" ", "\t">>, Hello >>
    /\ pos = 2
    /\ Occurs(BotProblem(ValueErr))

PaddedExit == <<" ", "E", "x", "i", "t", "\t">>
ExitNow    == <<"e", "x", "i", "t", " ", "n", "o", "w">>
Quitting   == <<"q", "u", "i", "t", "t", "i", "n", "g">>
PaddedHi   == <<"\t", "H", "i", " ">>

\* the line from its first to its last non-whitespace character, as typed
Trimmed(line) ==
    LET inked == { i \in 1..Len(line) : line[i] \notin Whitespace }
    IN  IF inked = {} THEN <<>>
        ELSE SubSeq(line, CHOOSE i \in inked : \A j \in inked : i <= j,
                          CHOOSE i \in inked : \A j \in inked : i >= j)

\* C15: the sentinel test looks at the whole stripped line: " Exit\t" ends
\* the loop without a dispatch, while "exit now" and "quitting" go to
\* DISPATCHING; the text of a dispatch is the line without its surrounding
\* whitespace and with its letter case as typed ("\tHi " gives "Hi"), and
\* that text is what get_response is called with.
C15_WholeLineSentinelAndText ==
    [][ /\ ReadsLine =>
              LET line == stdin[pos + 1]
              IN  /\ (line = PaddedExit)
                        => (state' = "TERMINATED" /\ dispatched' = dispatched)
                  /\ (line \in {ExitNow, Quitting})
                        => (state' = "DISPATCHING" /\ user_text' = line)
                  /\ (line = PaddedHi)
                        => (state' = "DISPATCHING" /\ user_text' = <<"H", "i">>)
                  /\ (state' = "DISPATCHING") => user_text' = Trimmed(line)
        /\ (state = "DISPATCHING")
              => dispatched' = Append(dispatched, user_text) ]_vars

\* "\tHi " and "exit now" were both dispatched, stripped and in their own case
C15_Witness ==
    /\ stdin = << PaddedHi, ExitNow >>
    /\ dispatched = << <<"H", "i">>, ExitNow >>
    /\ state = "WAITING_FOR_INPUT"

====
